---- MODULE Spec2Model ----
(***************************************************************************)
(* A state-machine model of analyze_demo (src/main.py): round-segment      *)
(* partitioning, tick resolution, sample aggregation, image rendering      *)
(* bookkeeping, the structured summary and the files written from it.      *)
(***************************************************************************)
EXTENDS Integers, Sequences, FiniteSets, TLC

VARIABLES
    rounds_df,                \* the round table, a sequence of round rows
    ticks_df,                 \* the tick table, a sequence of tick rows
    ticks_columns,            \* the columns the tick table has
    demo_tickrate,            \* demo_obj.tickrate, NaN when the demo has none
    player_name_to_heatmap,   \* the target player
    round_num_type,           \* the type of round_row['round_num'] in the round loop
    destination,              \* what the file system holds at the demo's output directory
    other_files,              \* entries of example_outputs that are not written by the call
    pc,                       \* position inside analyze_demo
    round_ranges,             \* the segments built from the round table
    all_heatmap_data,         \* one item per processed (segment, marker)
    range_i,                  \* index of the segment a loop is at
    marker_i,                 \* index of the time marker the extraction loop is at
    target_ticks,             \* the target_tick computed for each round of the last pass
    item_i,                   \* index of the item the individual-image loop is at
    generated_heatmap_count,  \* the counter printed after rendering
    attempted,                \* images whose rendering was started
    saved,                    \* images written to example_outputs
    json_output,              \* the structured summary
    full_file,                \* positions_<player>.json
    target_file,              \* positions_<player>_target.json
    delivered,                \* files moved to the demo's directory
    round_annotations         \* the round numbers computed for the images' annotations

vars == <<rounds_df, ticks_df, ticks_columns, demo_tickrate, player_name_to_heatmap,
          round_num_type, destination, other_files, pc, round_ranges, all_heatmap_data, range_i, marker_i, target_ticks,
          item_i, generated_heatmap_count, attempted, saved, json_output,
          full_file, target_file, delivered, round_annotations>>

inputs == <<rounds_df, ticks_df, ticks_columns, demo_tickrate, player_name_to_heatmap,
            round_num_type, destination, other_files>>

-----------------------------------------------------------------------------
(* Bounds of the model *)

MaxRounds == 26

MaxTicks == 2

-----------------------------------------------------------------------------
(* Program constants *)

\* The value standing for a missing cell (NaN / None / absent column); every
\* present tick, coordinate and round number of the model is >= 0.
NaN == -1

DefaultTickrate == 128

FirstHalfEnd == 12

SecondHalfEnd == 24

time_markers_config ==
    << [label |-> "1m48s", seconds_from_start |-> 7, display_time |-> "1:48"],
       [label |-> "1m47s", seconds_from_start |-> 8, display_time |-> "1:47"],
       [label |-> "1m46s", seconds_from_start |-> 9, display_time |-> "1:46"] >>

required_cols == {"name", "X", "Y", "Z", "round_num", "tick", "side"}

isna(v) == v = NaN

Min(a, b) == IF a <= b THEN a ELSE b

-----------------------------------------------------------------------------
(* Segment partitioning: lines 41-69.  A segment keeps the half-open slice   *)
(* [lo, hi) of 0-based row positions it was cut with (iloc[lo:hi]).          *)

\* Mutant: the first half is cut one row too long and overlaps the second.
RoundRangesOf_Overlap(total_rounds) ==
    LET first ==
            IF total_rounds >= 1
            THEN << [name |-> "first_half", lo |-> 0,
                     hi |-> Min(FirstHalfEnd + 1, total_rounds),
                     label |-> [from |-> 1, to |-> Min(FirstHalfEnd + 1, total_rounds),
                                text |-> "First Half"]] >>
            ELSE << >>
        second ==
            IF total_rounds >= 13 /\ Min(SecondHalfEnd, total_rounds) > FirstHalfEnd
            THEN << [name |-> "second_half", lo |-> FirstHalfEnd,
                     hi |-> Min(SecondHalfEnd, total_rounds),
                     label |-> [from |-> FirstHalfEnd + 1,
                                to |-> Min(SecondHalfEnd, total_rounds),
                                text |-> "Second Half"]] >>
            ELSE << >>
        overtime ==
            IF total_rounds >= 25 /\ total_rounds > SecondHalfEnd
            THEN << [name |-> "overtime", lo |-> SecondHalfEnd, hi |-> total_rounds,
                     label |-> [from |-> SecondHalfEnd + 1, to |-> NaN,
                                text |-> "+ (Overtime)"]] >>
            ELSE << >>
    IN  first \o second \o overtime

\* Mutant: the halves are cut at 13 rounds instead of 12.
RoundRangesOf_HalfOf13(total_rounds) ==
    LET first ==
            IF total_rounds >= 1
            THEN << [name |-> "first_half", lo |-> 0,
                     hi |-> Min(FirstHalfEnd + 1, total_rounds),
                     label |-> [from |-> 1, to |-> Min(FirstHalfEnd + 1, total_rounds),
                                text |-> "First Half"]] >>
            ELSE << >>
        second ==
            IF total_rounds >= 14 /\ Min(SecondHalfEnd, total_rounds) > FirstHalfEnd + 1
            THEN << [name |-> "second_half", lo |-> FirstHalfEnd + 1,
                     hi |-> Min(SecondHalfEnd, total_rounds),
                     label |-> [from |-> FirstHalfEnd + 2,
                                to |-> Min(SecondHalfEnd, total_rounds),
                                text |-> "Second Half"]] >>
            ELSE << >>
        overtime ==
            IF total_rounds >= 25 /\ total_rounds > SecondHalfEnd
            THEN << [name |-> "overtime", lo |-> SecondHalfEnd, hi |-> total_rounds,
                     label |-> [from |-> SecondHalfEnd + 1, to |-> NaN,
                                text |-> "+ (Overtime)"]] >>
            ELSE << >>
    IN  first \o second \o overtime

RoundRangesOf(total_rounds) ==
    LET first ==
            IF total_rounds >= 1
            THEN << [name |-> "first_half", lo |-> 0,
                     hi |-> Min(FirstHalfEnd, total_rounds),
                     label |-> [from |-> 1, to |-> Min(FirstHalfEnd, total_rounds),
                                text |-> "First Half"]] >>
            ELSE << >>
        second ==
            IF total_rounds >= 13 /\ Min(SecondHalfEnd, total_rounds) > FirstHalfEnd
            THEN << [name |-> "second_half", lo |-> FirstHalfEnd,
                     hi |-> Min(SecondHalfEnd, total_rounds),
                     label |-> [from |-> FirstHalfEnd + 1,
                                to |-> Min(SecondHalfEnd, total_rounds),
                                text |-> "Second Half"]] >>
            ELSE << >>
        overtime ==
            IF total_rounds >= 25 /\ total_rounds > SecondHalfEnd
            THEN << [name |-> "overtime", lo |-> SecondHalfEnd, hi |-> total_rounds,
                     label |-> [from |-> SecondHalfEnd + 1, to |-> NaN,
                                text |-> "+ (Overtime)"]] >>
            ELSE << >>
    IN  first \o second \o overtime

\* rounds_df.iloc[lo:hi]
RangeRounds(range_info) == SubSeq(rounds_df, range_info.lo + 1, range_info.hi)

-----------------------------------------------------------------------------
(* Tick resolution: lines 92-124 *)

\* demo_obj.tickrate with the fallback of lines 21-24
tickrate == IF isna(demo_tickrate) THEN DefaultTickrate ELSE demo_tickrate

\* int(seconds_from_start * tickrate)
OffsetTicks(time_config) == time_config.seconds_from_start * tickrate

\* lines 99-103: freeze_end if present, else start, else None
ActualRoundStartTick(round_row) ==
    IF ~isna(round_row.freeze_end) THEN round_row.freeze_end
    ELSE IF ~isna(round_row.start) THEN round_row.start
    ELSE NaN

\* lines 108-112: end if present, else end_official_tick, else None
CurrentRoundEndTick(round_row) ==
    IF ~isna(round_row.end) THEN round_row.end
    ELSE IF ~isna(round_row.end_official_tick) THEN round_row.end_official_tick
    ELSE NaN

\* lines 105-106 and 114-115: the round is skipped
Unresolvable(round_row) ==
    isna(ActualRoundStartTick(round_row)) \/ isna(CurrentRoundEndTick(round_row))

\* Mutant: the target tick is not clamped to the start of the round.
TargetTick_NoClamp(round_row, time_config) ==
    CurrentRoundEndTick(round_row) - OffsetTicks(time_config)

\* lines 121-124
TargetTick(round_row, time_config) ==
    LET t == CurrentRoundEndTick(round_row) - OffsetTicks(time_config)
    IN  IF t < ActualRoundStartTick(round_row)
        THEN ActualRoundStartTick(round_row)
        ELSE t

\* lines 126-127
SchemaOk == required_cols \subseteq ticks_columns

-----------------------------------------------------------------------------
(* Sample aggregation: lines 94-140.  positions_by_player is a dict, kept   *)
(* here as the sequence of its entries in insertion order.                   *)

\* positions_by_player.setdefault(name, []).append(sample)
SetDefaultAppend(d, name, sample) ==
    IF \E i \in 1..Len(d) : d[i].name = name
    THEN [i \in 1..Len(d) |->
            IF d[i].name = name
            THEN [d[i] EXCEPT !.points = Append(@, sample)]
            ELSE d[i]]
    ELSE Append(d, [name |-> name, points |-> <<sample>>])

\* Mutant: the lookup takes the rows within one tick of the target.
Matches_Nearest(player_state, round_num, target_tick) ==
    /\ player_state.round_num = round_num
    /\ player_state.tick - target_tick \in {-1, 0, 1}

\* line 131: the mask of one lookup
Matches(player_state, round_num, target_tick) ==
    player_state.round_num = round_num /\ player_state.tick = target_tick

\* Mutant: only Z is tested.
MissingCoordinate_ZOnly(player_state) == isna(player_state.Z)

\* lines 136-137
MissingCoordinate(player_state) ==
    isna(player_state.X) \/ isna(player_state.Y) \/ isna(player_state.Z)

\* lines 138-140: the sample (x, y, z, round_num, side)
SampleOf(player_state, round_num) ==
    [x |-> player_state.X, y |-> player_state.Y, z |-> player_state.Z,
     round_num |-> round_num, side |-> player_state.side]

\* lines 134-140: the loop over the matched rows, from row i of the tick table
RECURSIVE AddTickPositions(_, _, _, _)
AddTickPositions(d, round_num, target_tick, i) ==
    IF i > Len(ticks_df) THEN d
    ELSE IF ~Matches(ticks_df[i], round_num, target_tick)
         THEN AddTickPositions(d, round_num, target_tick, i + 1)
    ELSE IF MissingCoordinate(ticks_df[i])
         THEN AddTickPositions(d, round_num, target_tick, i + 1)
    ELSE AddTickPositions(
            SetDefaultAppend(d, ticks_df[i].name, SampleOf(ticks_df[i], round_num)),
            round_num, target_tick, i + 1)

\* Mutant: a round without a boundary ends the loop (break for continue).
RECURSIVE AddRoundPositions_Break(_, _, _, _)
AddRoundPositions_Break(acc, rows, time_config, j) ==
    IF j > Len(rows) \/ Unresolvable(rows[j])
    THEN [aborted |-> FALSE, positions |-> acc.positions, target_ticks |-> acc.target_ticks]
    ELSE LET target_tick == TargetTick(rows[j], time_config)
             computed == Append(acc.target_ticks,
                                [round_num |-> rows[j].round_num,
                                 target_tick |-> target_tick])
         IN  IF ~SchemaOk
             THEN [aborted |-> TRUE, positions |-> acc.positions,
                   target_ticks |-> computed]
             ELSE AddRoundPositions_Break(
                    [positions |-> AddTickPositions(acc.positions, rows[j].round_num,
                                                    target_tick, 1),
                     target_ticks |-> computed],
                    rows, time_config, j + 1)

\* lines 96-140: the loop over the rounds of one segment for one marker, from
\* row j of the slice.  acc carries positions_by_player and the target_tick
\* computed so far; aborted is the return of line 129
RECURSIVE AddRoundPositions(_, _, _, _)
AddRoundPositions(acc, rows, time_config, j) ==
    IF j > Len(rows)
    THEN [aborted |-> FALSE, positions |-> acc.positions, target_ticks |-> acc.target_ticks]
    ELSE IF Unresolvable(rows[j])
         THEN AddRoundPositions(acc, rows, time_config, j + 1)
    ELSE LET target_tick == TargetTick(rows[j], time_config)
             computed == Append(acc.target_ticks,
                                [round_num |-> rows[j].round_num,
                                 target_tick |-> target_tick])
         IN  IF ~SchemaOk
             THEN [aborted |-> TRUE, positions |-> acc.positions,
                   target_ticks |-> computed]
             ELSE AddRoundPositions(
                    [positions |-> AddTickPositions(acc.positions, rows[j].round_num,
                                                    target_tick, 1),
                     target_ticks |-> computed],
                    rows, time_config, j + 1)

\* line 94: the empty dict a pass starts with
NoPositions == [positions |-> << >>, target_ticks |-> << >>]

-----------------------------------------------------------------------------
(* Image rendering bookkeeping: lines 155-242 and 250-369 *)

\* the item's list for one player: positions_by_player.get(player, [])
PointsOf(positions_by_player, player) ==
    IF \E i \in 1..Len(positions_by_player) : positions_by_player[i].name = player
    THEN positions_by_player[
            CHOOSE i \in 1..Len(positions_by_player) :
                positions_by_player[i].name = player].points
    ELSE << >>

CountOf(sides, s) == Cardinality({i \in 1..Len(sides) : sides[i] = s})

\* Counter(sides).most_common(1)[0][0], "Unknown" for no side: the side met
\* most often, the one met first among equals
MostCommonSide(sides) ==
    IF sides = << >> THEN "Unknown"
    ELSE sides[CHOOSE i \in 1..Len(sides) :
                 /\ \A j \in 1..Len(sides) : CountOf(sides, sides[j]) <= CountOf(sides, sides[i])
                 /\ \A j \in 1..(i - 1) : CountOf(sides, sides[j]) < CountOf(sides, sides[i])]

\* lines 182 and 287-288: the sides of the points, a falsy side ('' or None,
\* here "") left out
SidesOf(points) ==
    LET kept == SelectSeq(points, LAMBDA p : p.side # "")
    IN  [i \in 1..Len(kept) |-> kept[i].side]

\* lines 163-172 and 192: the item gets an individual image
HasIndividualImage(item) == PointsOf(item.positions_by_player, player_name_to_heatmap) # << >>

\* line 238: the file name of an individual image
IndividualImage(item) ==
    [range_name |-> item.range_name, part |-> item.time_label_for_file,
     side |-> MostCommonSide(SidesOf(PointsOf(item.positions_by_player,
                                              player_name_to_heatmap)))]

RECURSIVE Concat(_)
Concat(seqs) == IF seqs = << >> THEN << >> ELSE Head(seqs) \o Concat(Tail(seqs))

\* lines 265-288: the target player's points of every item of one segment
PointsForRange(range_name) ==
    Concat([k \in 1..Len(all_heatmap_data) |->
              IF all_heatmap_data[k].range_name = range_name
              THEN PointsOf(all_heatmap_data[k].positions_by_player, player_name_to_heatmap)
              ELSE << >>])

\* line 361: the file name of a combined image
CombinedImage(range_name) ==
    [range_name |-> range_name, part |-> "combined",
     side |-> MostCommonSide(SidesOf(PointsForRange(range_name)))]

-----------------------------------------------------------------------------
(* Round numbers shown on the images: lines 177-180, 206-221 and 259-286 *)

\* the "?" of lines 212 and 274, the value of a round before the segment's first
UnknownRound == 0

\* the halves, whose displayed round numbers are kept within HalfLength
Halves == {"first_half", "second_half"}

HalfLength == 12

\* isinstance(adjusted, int) of lines 214 and 276: adjusted is "?" or
\* round_num - first_round + 1 with first_round an int, so it is an int when
\* round_num is one; a numpy.int64 or numpy.float64 is not an instance of int
IsInstanceInt(adjusted) == adjusted # UnknownRound /\ round_num_type = "int"

\* lines 177-180: the round number of the first row of the item's segment, 1
\* when no segment has the name or the segment is empty
FirstRoundInRangeIndividual(range_name) ==
    IF \E k \in 1..Len(round_ranges) :
            round_ranges[k].name = range_name /\ RangeRounds(round_ranges[k]) # << >>
    THEN RangeRounds(round_ranges[CHOOSE k \in 1..Len(round_ranges) :
                                    round_ranges[k].name = range_name])[1].round_num
    ELSE 1

\* Mutant: the round number of the last row of the segment is taken.
FirstRoundInRange_Last(range_info) ==
    IF RangeRounds(range_info) # << >>
    THEN RangeRounds(range_info)[Len(RangeRounds(range_info))].round_num
    ELSE 1

\* lines 259-263: the round number of the first row of the segment, 1 when empty
FirstRoundInRange(range_info) ==
    IF RangeRounds(range_info) # << >>
    THEN RangeRounds(range_info)[1].round_num
    ELSE 1

\* lines 212-216: the round number displayed on an individual image
AdjustedRoundIndividual(original_round_num, first_round, range_name) ==
    LET adjusted == IF original_round_num >= first_round
                    THEN original_round_num - first_round + 1
                    ELSE UnknownRound
    IN  IF range_name \in Halves /\ IsInstanceInt(adjusted) /\ adjusted > HalfLength
        THEN ((adjusted - 1) % HalfLength) + 1
        ELSE adjusted

\* lines 274-278: the round number displayed on a combined image
AdjustedRound(original_round_num, first_round, range_name) ==
    LET adjusted == IF original_round_num >= first_round
                    THEN original_round_num - first_round + 1
                    ELSE UnknownRound
    IN  IF range_name \in Halves /\ IsInstanceInt(adjusted) /\ adjusted > HalfLength
        THEN ((adjusted - 1) % HalfLength) + 1
        ELSE adjusted

\* lines 206-221: the round numbers of the annotations of an individual image,
\* one for each point of the target player in the item
IndividualRoundNumbers(item) ==
    LET points == PointsOf(item.positions_by_player, player_name_to_heatmap)
    IN  [i \in 1..Len(points) |->
            [point |-> << points[i].x, points[i].y, points[i].z >>,
             time_label |-> item.time_label_for_file,
             round |-> AdjustedRoundIndividual(
                          points[i].round_num,
                          FirstRoundInRangeIndividual(item.range_name),
                          item.range_name)]]

\* lines 265-286: player_positions_for_range_all_times of one segment
CombinedRoundNumbers(range_info) ==
    Concat([k \in 1..Len(all_heatmap_data) |->
              IF all_heatmap_data[k].range_name = range_info.name
              THEN LET points == PointsOf(all_heatmap_data[k].positions_by_player,
                                          player_name_to_heatmap)
                   IN  [i \in 1..Len(points) |->
                          [point |-> << points[i].x, points[i].y, points[i].z >>,
                           time_label |-> all_heatmap_data[k].time_label_for_file,
                           round |-> AdjustedRound(points[i].round_num,
                                                   FirstRoundInRange(range_info),
                                                   range_info.name)]]
              ELSE << >>])

-----------------------------------------------------------------------------
(* Structured summary: lines 375-419 *)

\* the order of the time labels as strings: "1m46s" < "1m47s" < "1m48s"
TimeLabelRank(time_label) ==
    CASE time_label = "1m46s" -> 1
      [] time_label = "1m47s" -> 2
      [] time_label = "1m48s" -> 3

\* Mutant: the key is (time_label, round).
KeyLeq_LabelFirst(a, b) ==
    \/ TimeLabelRank(a.time_label) < TimeLabelRank(b.time_label)
    \/ a.time_label = b.time_label /\ a.round <= b.round

\* the sort key of line 411: (round, time_label)
KeyLeq(a, b) ==
    \/ a.round < b.round
    \/ a.round = b.round /\ TimeLabelRank(a.time_label) <= TimeLabelRank(b.time_label)

\* sorted() is stable: an element goes after every element whose key is not greater
RECURSIVE InsertSorted(_, _)
InsertSorted(sorted_list, e) ==
    IF sorted_list = << >> THEN << e >>
    ELSE IF KeyLeq(Head(sorted_list), e)
         THEN << Head(sorted_list) >> \o InsertSorted(Tail(sorted_list), e)
         ELSE << e >> \o sorted_list

RECURSIVE SortedOccurrences(_)
SortedOccurrences(occurrence_list) ==
    IF occurrence_list = << >> THEN << >>
    ELSE InsertSorted(SortedOccurrences(SubSeq(occurrence_list, 1, Len(occurrence_list) - 1)),
                      occurrence_list[Len(occurrence_list)])

\* Mutant: the frequency of a position met again is not incremented.
AddPosition_CountOnce(positions, pos, detail) ==
    IF \E i \in 1..Len(positions) : positions[i].position = pos
    THEN [i \in 1..Len(positions) |->
            IF positions[i].position = pos
            THEN [positions[i] EXCEPT !.occurrences = Append(@, detail)]
            ELSE positions[i]]
    ELSE Append(positions, [position |-> pos, count |-> 1, occurrences |-> << detail >>])

\* lines 391-403 for one sample of one player: the frequency and the details
\* dict of the player, kept together as the player's list of positions
AddPosition(positions, pos, detail) ==
    IF \E i \in 1..Len(positions) : positions[i].position = pos
    THEN [i \in 1..Len(positions) |->
            IF positions[i].position = pos
            THEN [positions[i] EXCEPT !.count = @ + 1,
                                      !.occurrences = Append(@, detail)]
            ELSE positions[i]]
    ELSE Append(positions, [position |-> pos, count |-> 1, occurrences |-> << detail >>])

\* lines 386-403 for one sample
AddSample(out, player, sample, item) ==
    LET pos == << sample.x, sample.y, sample.z >>
        detail == [round |-> sample.round_num, side |-> sample.side,
                   time_label |-> item.time_label_for_file,
                   range_label |-> item.range_label]
    IN  IF \E i \in 1..Len(out) : out[i].player = player
        THEN [i \in 1..Len(out) |->
                IF out[i].player = player
                THEN [out[i] EXCEPT !.positions = AddPosition(@, pos, detail)]
                ELSE out[i]]
        ELSE Append(out, [player |-> player,
                          positions |-> AddPosition(<< >>, pos, detail)])

\* line 390: the loop over the samples of one player of one item
RECURSIVE AddSamples(_, _, _, _, _)
AddSamples(out, player, points, item, i) ==
    IF i > Len(points) THEN out
    ELSE AddSamples(AddSample(out, player, points[i], item), player, points, item, i + 1)

\* line 385: the loop over the players of one item
RECURSIVE AddPlayers(_, _, _)
AddPlayers(out, item, i) ==
    IF i > Len(item.positions_by_player) THEN out
    ELSE AddPlayers(AddSamples(out, item.positions_by_player[i].name,
                               item.positions_by_player[i].points, item, 1),
                    item, i + 1)

\* line 380: the loop over the items
RECURSIVE AddItems(_, _, _)
AddItems(out, items, i) ==
    IF i > Len(items) THEN out
    ELSE AddItems(AddPlayers(out, items[i], 1), items, i + 1)

\* lines 406-419: every occurrence list sorted
JsonOutputOf(items) ==
    LET combined == AddItems(<< >>, items, 1)
    IN  [i \in 1..Len(combined) |->
            [player |-> combined[i].player,
             positions |->
                [j \in 1..Len(combined[i].positions) |->
                    [combined[i].positions[j] EXCEPT
                        !.occurrences = SortedOccurrences(@)]]]]

\* line 431
TargetPlayerData(output) ==
    SelectSeq(output, LAMBDA entry : entry.player = player_name_to_heatmap)

-----------------------------------------------------------------------------
(* The inputs analyze_demo is called with: line 12 *)

\* Rounds follow one another on the tick axis
RoundBase(n) == (n - 1) * 3000

RoundKinds == {"normal", "no_freeze_end", "short", "no_end", "no_start", "no_end_at_all"}

\* Row n of a round table; round numbers are 1, 2, ... in table order
RoundRow(n, kind) ==
    [round_num |-> n,
     freeze_end |-> IF kind \in {"no_freeze_end", "no_start"} THEN NaN
                    ELSE RoundBase(n) + 1000,
     start |-> IF kind = "no_start" THEN NaN ELSE RoundBase(n) + 900,
     end |-> IF kind \in {"no_end", "no_end_at_all"} THEN NaN
             ELSE IF kind = "short" THEN RoundBase(n) + 1050
             ELSE RoundBase(n) + 2000,
     end_official_tick |-> IF kind = "no_end_at_all" THEN NaN ELSE RoundBase(n) + 2100]

\* Round tables of n rows: the first row of any kind and the others normal; the
\* second row without a boundary and the others normal; every row without a
\* start boundary
RoundTables(n) ==
    { [i \in 1..n |-> RoundRow(i, IF i = 1 THEN kind ELSE "normal")] :
        kind \in RoundKinds }
    \cup { [i \in 1..n |-> RoundRow(i, IF i = 2 THEN kind ELSE "normal")] :
        kind \in {"no_start", "no_end_at_all"} }
    \cup { [i \in 1..n |-> RoundRow(i, "no_start")] }

TickRow(name, round_num, offset, x, side) ==
    [name |-> name, round_num |-> round_num, tick |-> RoundBase(round_num) + offset,
     X |-> x, Y |-> 20, Z |-> 30, side |-> side]

\* Tick rows in table order (by round, then tick)
CandidateTicks ==
    << TickRow("p1", 1, 1000, 10, "ct"),
       TickRow("p2", 1, 1000, 10, "t"),
       TickRow("p1", 1, 1104, NaN, "ct"),
       TickRow("p1", 1, 1104, 11, "t"),
       TickRow("p1", 1, 1105, 12, "ct"),
       TickRow("p1", 2, 1104, 10, "ct"),
       TickRow("p1", 13, 1104, 10, "t"),
       TickRow("p1", 25, 1104, 11, "ct") >>

\* The rows of CandidateTicks picked by S, in table order
TickTable(S) ==
    LET F[i \in 0..Len(CandidateTicks)] ==
            IF i = 0 THEN << >>
            ELSE IF i \in S THEN Append(F[i - 1], CandidateTicks[i])
            ELSE F[i - 1]
    IN  F[Len(CandidateTicks)]

TickTables ==
    { TickTable(S) : S \in { T \in SUBSET (1..Len(CandidateTicks)) :
                               Cardinality(T) <= MaxTicks } }

ColumnSets == { required_cols, required_cols \ {"side"} }

Tickrates == { NaN, 64 }

\* The types round_row['round_num'] can have: iterrows (line 96) yields a row
\* of Python objects when the round table has a column of strings, as the
\* table of a parsed demo has, and a row of numpy.int64 or of numpy.float64
\* when all its columns are numbers
RoundNumTypes == {"int", "numpy.int64", "numpy.float64"}

\* What the path os.path.join(demo_dir, demo_name_base) of line 450 is at the
\* call: absent or a directory the files can be moved to; a file (the demo
\* itself, when its name does not end in ".dem"); a directory that holds a
\* directory with the name of the full summary file
Destinations == {"usable", "is_file", "holds_directory"}

\* an entry of example_outputs that the call did not write
OtherFile(name) == [range_name |-> "?other", part |-> name, side |-> "-"]

OtherFileNames == {"positions_p1_old.json", "notes_p1.txt", "heatmap_p2_x.png"}

\* f.endswith(".json") or f.endswith(".png") of line 453
HasMovedExtension(name) ==
    name \in {"positions_p1_old.json", "heatmap_p2_x.png"}

\* player_name_to_heatmap.replace(' ', '_') in f of line 453
NamesPlayer(name, player) ==
    \/ player = "p1" /\ name \in {"positions_p1_old.json", "notes_p1.txt"}
    \/ player = "p2" /\ name = "heatmap_p2_x.png"

\* The file system a parsed demo is analysed on: nothing in the way
PlainEnvironment ==
    /\ round_num_type = "int"
    /\ destination = "usable"
    /\ other_files = {}

NoFile == [state |-> "absent", content |-> << >>]

SummaryFile == [range_name |-> "-", part |-> "positions", side |-> "-"]

TargetSummaryFile == [range_name |-> "-", part |-> "positions_target", side |-> "-"]

\* The numbers of rounds of the tables of Init: no round, one segment with one
\* and with two rounds, two segments, three segments
RoundCounts == {0, 1, 2, 13, 25}

\* The state at the call, but for the tables
InitRun ==
    /\ player_name_to_heatmap = "p1"
    /\ pc = "start"
    /\ round_ranges = << >>
    /\ all_heatmap_data = << >>
    /\ range_i = 1
    /\ marker_i = 1
    /\ target_ticks = << >>
    /\ item_i = 1
    /\ generated_heatmap_count = 0
    /\ attempted = {}
    /\ saved = {}
    /\ json_output = << >>
    /\ full_file = NoFile
    /\ target_file = NoFile
    /\ delivered = {}
    /\ round_annotations = {}

\* Calls with round tables of every kind; the calls on a one-round table also
\* with every destination and with other files in example_outputs
Init ==
    /\ \E n \in RoundCounts : rounds_df \in RoundTables(n)
    /\ ticks_df \in TickTables
    /\ ticks_columns \in ColumnSets
    /\ demo_tickrate \in Tickrates
    /\ \/ PlainEnvironment
       \/ /\ rounds_df = << RoundRow(1, "normal") >>
          /\ ticks_columns = required_cols
          /\ demo_tickrate = NaN
          /\ round_num_type = "int"
          /\ destination \in Destinations
          /\ other_files \in {{}, {OtherFile(name) : name \in OtherFileNames}}
    /\ InitRun

\* Calls with round tables of every length up to MaxRounds, all rounds normal
InitSegments ==
    /\ \E n \in 0..MaxRounds : rounds_df = [i \in 1..n |-> RoundRow(i, "normal")]
    /\ ticks_df \in TickTables
    /\ ticks_columns = required_cols
    /\ demo_tickrate = NaN
    /\ PlainEnvironment
    /\ InitRun

\* Round numberings of a table: row i has the number first + step * (i - 1).
\* Numbers from 1 and from 5, numbers twelve apart, and numbers going down
RoundNumberings ==
    { [first |-> 1, step |-> 1], [first |-> 5, step |-> 1],
      [first |-> 5, step |-> 12], [first |-> 30, step |-> -1] }

\* Round tables of one, two and three segments with these numberings
NumberedRoundTables ==
    { [i \in 1..n |-> RoundRow(nb.first + nb.step * (i - 1), "normal")] :
        n \in {2, 14, MaxRounds}, nb \in RoundNumberings }

\* the rows of the round table the tick table has rows of, with the offset of
\* the tick in the round and the side: the first two rows of every segment, one
\* of them with an empty side
SampledRows ==
    << <<1, 1104, "ct">>, <<2, 1000, "ct">>, <<2, 1104, "ct">>, <<13, 1104, "">>,
       <<14, 1104, "ct">>, <<25, 1104, "ct">>, <<26, 1104, "ct">> >>

\* Tick tables for a round table: at most MaxTicks rows of the target player
NumberedTickTables(rounds) ==
    LET cands == SelectSeq(SampledRows, LAMBDA c : c[1] <= Len(rounds))
        F[i \in 0..Len(cands)] ==
            [S \in SUBSET (1..Len(cands)) |->
                IF i = 0 THEN << >>
                ELSE IF i \in S
                     THEN Append(F[i - 1][S],
                                 TickRow("p1", rounds[cands[i][1]].round_num,
                                         cands[i][2], 10, cands[i][3]))
                     ELSE F[i - 1][S]]
    IN  { F[Len(cands)][S] : S \in { T \in SUBSET (1..Len(cands)) :
                                        Cardinality(T) <= MaxTicks } }

\* Calls with round tables numbered in these ways, all rounds normal; the
\* two-round tables with round numbers of every type
InitRebase ==
    /\ rounds_df \in NumberedRoundTables
    /\ ticks_df \in NumberedTickTables(rounds_df)
    /\ ticks_columns = required_cols
    /\ demo_tickrate = NaN
    /\ round_num_type \in RoundNumTypes
    /\ round_num_type # "int" => Len(rounds_df) = 2
    /\ destination = "usable"
    /\ other_files = {}
    /\ InitRun

-----------------------------------------------------------------------------
(* The steps of analyze_demo *)

\* Mutant: the tick table is not tested.
InputsEmpty_RoundsOnly == rounds_df = << >>

\* lines 34-39: rounds_df.empty or ticks_df.empty
InputsEmpty == rounds_df = << >> \/ ticks_df = << >>

CheckInputs ==
    /\ pc = "start"
    /\ pc' = IF InputsEmpty THEN "returned" ELSE "partition"
    /\ UNCHANGED <<inputs, round_ranges, all_heatmap_data, range_i, marker_i, target_ticks,
                   item_i, generated_heatmap_count, attempted, saved, json_output,
                   full_file, target_file, delivered, round_annotations>>

\* lines 41-69
Partition ==
    /\ pc = "partition"
    /\ round_ranges' = RoundRangesOf(Len(rounds_df))
    /\ range_i' = 1
    /\ marker_i' = 1
    /\ pc' = "extract"
    /\ UNCHANGED <<inputs, all_heatmap_data, target_ticks, item_i,
                   generated_heatmap_count, attempted, saved, json_output,
                   full_file, target_file, delivered, round_annotations>>

\* lines 74-149, one (segment, marker) pass of the two outer loops
ExtractItem ==
    /\ pc = "extract"
    /\ range_i <= Len(round_ranges)
    /\ LET range_info == round_ranges[range_i]
           time_config == time_markers_config[marker_i]
           res == AddRoundPositions(NoPositions, RangeRounds(range_info), time_config, 1)
           last_marker == marker_i = Len(time_markers_config)
           last_item == last_marker /\ range_i = Len(round_ranges)
       IN  /\ target_ticks' = res.target_ticks
           /\ IF res.aborted
              THEN /\ pc' = "returned"
                   /\ UNCHANGED <<all_heatmap_data, range_i, marker_i, item_i>>
              ELSE /\ all_heatmap_data' = Append(all_heatmap_data,
                           [range_name |-> range_info.name,
                            range_label |-> range_info.label,
                            time_label_for_file |-> time_config.label,
                            display_time_for_title |-> time_config.display_time,
                            seconds_from_start |-> time_config.seconds_from_start,
                            positions_by_player |-> res.positions])
                   /\ marker_i' = IF last_marker THEN 1 ELSE marker_i + 1
                   /\ range_i' = IF last_item THEN 1
                                 ELSE IF last_marker THEN range_i + 1 ELSE range_i
                   /\ item_i' = 1
                   /\ pc' = IF last_item THEN "individual" ELSE "extract"
    /\ UNCHANGED <<inputs, round_ranges,
                   generated_heatmap_count, attempted, saved, json_output,
                   full_file, target_file, delivered, round_annotations>>

\* How the try of a rendering ends: the image is saved and nothing raises; a
\* call at the head of the try raises, before the annotations of an individual
\* image are computed (lines 198-205, 301); a later call up to fig.savefig
\* raises (lines 206-239, 302-362); plt.close raises after the image is saved
\* (lines 240, 363)
RenderOutcomes == {"saved", "plot_raises", "savefig_raises", "close_raises"}

\* the outcomes in which an exception reaches the handler
Raises(outcome) == outcome # "saved"

\* the outcomes in which fig.savefig returned
ImageSaved(outcome) == outcome \in {"saved", "close_raises"}

\* Mutant: an exception of the renderer is not caught.
PcAfterRender_Uncaught(raises, next_pc) == IF raises THEN "failed" ELSE next_pc

\* lines 241-242 and 367-368: the handler prints and the loop goes on
PcAfterRender(raises, next_pc) == next_pc

\* the items from item i on that get an individual image; the loop passes over
\* the others without effect (lines 163-172)
ItemsToRender(i) ==
    {k \in i..Len(all_heatmap_data) : HasIndividualImage(all_heatmap_data[k])}

\* lines 155-242: the loop goes to the next item that gets an image and renders
\* it, or ends; outcome is how the try ends.  The counter is incremented
\* before the try (line 194); the annotations are computed inside the try,
\* after the plotting call (lines 206-221)
RenderIndividual ==
    /\ pc = "individual"
    /\ IF ItemsToRender(item_i) # {}
       THEN LET k == CHOOSE k \in ItemsToRender(item_i) :
                        \A m \in ItemsToRender(item_i) : k <= m
                item == all_heatmap_data[k]
            IN  \E outcome \in RenderOutcomes :
                  /\ generated_heatmap_count' = generated_heatmap_count + 1
                  /\ attempted' = attempted \cup {IndividualImage(item)}
                  /\ saved' = IF ImageSaved(outcome)
                              THEN saved \cup {IndividualImage(item)}
                              ELSE saved
                  /\ round_annotations' =
                        IF outcome = "plot_raises" THEN round_annotations
                        ELSE round_annotations \cup
                               {[image |-> IndividualImage(item),
                                 entries |-> IndividualRoundNumbers(item)]}
                  /\ item_i' = k + 1
                  /\ pc' = PcAfterRender(Raises(outcome), "individual")
       ELSE /\ pc' = "combined"
            /\ item_i' = 1
            /\ UNCHANGED <<generated_heatmap_count, attempted, saved, round_annotations>>
    /\ range_i' = 1
    /\ UNCHANGED <<inputs, round_ranges, all_heatmap_data, marker_i, target_ticks,
                   json_output, full_file, target_file, delivered>>

\* the segments from segment i on that get a combined image; the loop passes
\* over the others without effect (lines 290-292)
RangesToRender(i) ==
    {k \in i..Len(round_ranges) : PointsForRange(round_ranges[k].name) # << >>}

\* lines 250-369: the loop goes to the next segment that gets a combined image
\* and renders it, or ends; outcome is how the try ends.  The round numbers
\* are computed before the try (lines 271-286); the counter is incremented
\* last in the try, after plt.close (line 364)
RenderCombined ==
    /\ pc = "combined"
    /\ IF RangesToRender(range_i) # {}
       THEN LET k == CHOOSE k \in RangesToRender(range_i) :
                        \A m \in RangesToRender(range_i) : k <= m
                range_name == round_ranges[k].name
            IN  \E outcome \in RenderOutcomes :
                  /\ attempted' = attempted \cup {CombinedImage(range_name)}
                  /\ saved' = IF ImageSaved(outcome)
                              THEN saved \cup {CombinedImage(range_name)}
                              ELSE saved
                  /\ generated_heatmap_count' =
                        IF Raises(outcome) THEN generated_heatmap_count
                        ELSE generated_heatmap_count + 1
                  /\ round_annotations' = round_annotations \cup
                        {[image |-> CombinedImage(range_name),
                          entries |-> CombinedRoundNumbers(round_ranges[k])]}
                  /\ range_i' = k + 1
                  /\ pc' = PcAfterRender(Raises(outcome), "combined")
       ELSE /\ pc' = "json"
            /\ range_i' = 1
            /\ UNCHANGED <<generated_heatmap_count, attempted, saved, round_annotations>>
    /\ UNCHANGED <<inputs, round_ranges, all_heatmap_data, marker_i, target_ticks, item_i,
                   json_output, full_file, target_file, delivered>>

\* Mutant: the summary is built from the items whose individual image was saved.
BuildJson_SavedOnly ==
    /\ pc = "json"
    /\ json_output' = JsonOutputOf(SelectSeq(all_heatmap_data, LAMBDA item :
                        HasIndividualImage(item) => IndividualImage(item) \in saved))
    /\ pc' = "write_full"
    /\ UNCHANGED <<inputs, round_ranges, all_heatmap_data, range_i, marker_i, target_ticks,
                   item_i, generated_heatmap_count, attempted, saved,
                   full_file, target_file, delivered, round_annotations>>

\* lines 375-419
BuildJson ==
    /\ pc = "json"
    /\ json_output' = JsonOutputOf(all_heatmap_data)
    /\ pc' = "write_full"
    /\ UNCHANGED <<inputs, round_ranges, all_heatmap_data, range_i, marker_i, target_ticks,
                   item_i, generated_heatmap_count, attempted, saved,
                   full_file, target_file, delivered, round_annotations>>

\* What a "with open(name, 'w') as fp: json.dump(data, fp)" leaves behind: open
\* creates or truncates the file, json.dump writes it piece by piece, and an
\* exception of either leaves the function (nothing catches it)
WriteOutcomes == {"written", "open_raises", "dump_raises"}

\* json.dump raises TypeError on a numpy.int64: the "round" of an occurrence
\* (line 397) is the round_num of the round loop; a numpy.float64 is a float
JsonSerialisable(data) ==
    \/ round_num_type # "numpy.int64"
    \/ \A p \in 1..Len(data) : data[p].positions = << >>

\* the ways the writing of data can end
WriteOutcomesOf(data) ==
    IF JsonSerialisable(data) THEN WriteOutcomes ELSE WriteOutcomes \ {"written"}

FileAfter(file, data, outcome) ==
    CASE outcome = "written" -> [state |-> "complete", content |-> data]
      [] outcome = "open_raises" -> file
      [] outcome = "dump_raises" -> [state |-> "partial", content |-> << >>]

\* lines 426-429
WriteFull ==
    /\ pc = "write_full"
    /\ \E outcome \in WriteOutcomesOf(json_output) :
          /\ full_file' = FileAfter(full_file, json_output, outcome)
          /\ pc' = IF outcome = "written" THEN "write_target" ELSE "failed"
    /\ UNCHANGED <<inputs, round_ranges, all_heatmap_data, range_i, marker_i, target_ticks,
                   item_i, generated_heatmap_count, attempted, saved, json_output,
                   target_file, delivered, round_annotations>>

\* lines 431-435
WriteTarget ==
    /\ pc = "write_target"
    /\ \E outcome \in WriteOutcomesOf(TargetPlayerData(json_output)) :
          /\ target_file' = FileAfter(target_file, TargetPlayerData(json_output), outcome)
          /\ pc' = IF outcome = "written" THEN "move" ELSE "failed"
    /\ UNCHANGED <<inputs, round_ranges, all_heatmap_data, range_i, marker_i, target_ticks,
                   item_i, generated_heatmap_count, attempted, saved, json_output,
                   full_file, delivered, round_annotations>>

\* line 453: the entries of example_outputs that end in .json or .png and
\* hold the player's name: the images and the summaries the call wrote (lines
\* 238, 361, 426, 432 put the name in) and those of the other entries
FilesToMove ==
    saved \cup {SummaryFile, TargetSummaryFile}
      \cup {f \in other_files : /\ HasMovedExtension(f.part)
                                /\ NamesPlayer(f.part, player_name_to_heatmap)}

\* lines 440-466: the files are moved one by one in the order of os.listdir,
\* which is any order; nothing catches an exception.  When the destination is
\* a file the first os.rename raises; when it holds a directory with the name
\* of the full summary, os.remove raises at that file, after the files listed
\* before it were moved
MoveFiles ==
    /\ pc = "move"
    /\ CASE destination = "usable" ->
              /\ delivered' = FilesToMove
              /\ pc' = "done"
         [] destination = "is_file" ->
              /\ delivered' = {}
              /\ pc' = "failed"
         [] destination = "holds_directory" ->
              /\ delivered' \in SUBSET (FilesToMove \ {SummaryFile})
              /\ pc' = "failed"
    /\ UNCHANGED <<inputs, round_ranges, all_heatmap_data, range_i, marker_i, target_ticks,
                   item_i, generated_heatmap_count, attempted, saved, json_output,
                   full_file, target_file, round_annotations>>

Next ==
    \/ CheckInputs
    \/ Partition
    \/ ExtractItem
    \/ RenderIndividual
    \/ RenderCombined
    \/ BuildJson
    \/ WriteFull
    \/ WriteTarget
    \/ MoveFiles

Spec == Init /\ [][Next]_vars

SpecSegments == InitSegments /\ [][Next]_vars

SpecRebase == InitRebase /\ [][Next]_vars

-----------------------------------------------------------------------------
(* Properties *)

\* the segments have been built
Partitioned == ~InputsEmpty /\ pc \notin {"start", "partition"}

\* the extraction loops ran to their end
Extracted ==
    pc \in {"individual", "combined", "json", "write_full", "write_target",
            "move", "done", "failed"}

\* the rendering loops ran to their end
Rendered == pc \in {"json", "write_full", "write_target", "move", "done", "failed"}

SegmentsOfIndex(k) ==
    {i \in 1..Len(round_ranges) : round_ranges[i].lo <= k /\ k < round_ranges[i].hi}

SegmentRank(name) ==
    CASE name = "first_half" -> 1
      [] name = "second_half" -> 2
      [] name = "overtime" -> 3

\* C1: once the segments are built, every round index in [0,N) lies in exactly
\* one segment, no segment is empty or reaches outside [0,N), and the segments
\* come in round order: first_half, then second_half, then overtime.
C1_SegmentsPartitionRounds ==
    Partitioned =>
        /\ \A k \in 0..(Len(rounds_df) - 1) : Cardinality(SegmentsOfIndex(k)) = 1
        /\ \A i \in 1..Len(round_ranges) :
              /\ 0 <= round_ranges[i].lo
              /\ round_ranges[i].lo < round_ranges[i].hi
              /\ round_ranges[i].hi <= Len(rounds_df)
        /\ \A i \in 1..Len(round_ranges), j \in 1..Len(round_ranges) :
              i < j => /\ round_ranges[i].hi <= round_ranges[j].lo
                       /\ SegmentRank(round_ranges[i].name) < SegmentRank(round_ranges[j].name)

C1_Witness == Partitioned /\ Len(rounds_df) = 26 /\ Len(round_ranges) = 3

Slice(i) == << round_ranges[i].name, round_ranges[i].lo, round_ranges[i].hi >>

\* C2: the segment boundaries are 12 and 24: up to 12 rounds give first_half
\* over [0,N) alone; 13 to 24 rounds give first_half over [0,12) and second_half
\* over [12,N); 25 rounds or more give first_half over [0,12), second_half over
\* [12,24) and overtime over [24,N).
C2_BoundariesAt12And24 ==
    Partitioned =>
        LET N == Len(rounds_df)
        IN  /\ N <= 12 =>
                /\ Len(round_ranges) = 1
                /\ Slice(1) = << "first_half", 0, N >>
            /\ (13 <= N /\ N <= 24) =>
                /\ Len(round_ranges) = 2
                /\ Slice(1) = << "first_half", 0, 12 >>
                /\ Slice(2) = << "second_half", 12, N >>
            /\ N >= 25 =>
                /\ Len(round_ranges) = 3
                /\ Slice(1) = << "first_half", 0, 12 >>
                /\ Slice(2) = << "second_half", 12, 24 >>
                /\ Slice(3) = << "overtime", 24, N >>

C2_Witness ==
    /\ Partitioned
    /\ Len(rounds_df) = 24
    /\ Len(round_ranges) = 2
    /\ round_ranges[2].hi = 24

\* the row of the round table with a round number (round numbers are unique)
RoundRowOf(round_num) ==
    rounds_df[CHOOSE j \in 1..Len(rounds_df) : rounds_df[j].round_num = round_num]

\* the marker of the pass that computed target_ticks
LastMarker ==
    IF pc = "extract" /\ marker_i > 1 THEN time_markers_config[marker_i - 1]
    ELSE IF pc = "returned" THEN time_markers_config[marker_i]
    ELSE time_markers_config[Len(time_markers_config)]

Max(a, b) == IF a >= b THEN a ELSE b

\* the boundaries as the claim words them
ClaimRoundStart(row) == IF row.freeze_end # NaN THEN row.freeze_end ELSE row.start

ClaimRoundEnd(row) == IF row.end # NaN THEN row.end ELSE row.end_official_tick

ClaimTickrate == IF demo_tickrate = NaN THEN 128 ELSE demo_tickrate

\* C3: every target tick computed for a round with a usable start and end is
\* max(round_end - seconds * tickrate, round_start), so it lies between
\* round_start and max(round_start, round_end); start=1000, end=2000,
\* tickrate 128 and 7 s give 1104, and end=1050 gives the clamped 1000.
C3_TargetTickClamped ==
    \A i \in 1..Len(target_ticks) :
        LET row == RoundRowOf(target_ticks[i].round_num)
            round_start == ClaimRoundStart(row)
            round_end == ClaimRoundEnd(row)
            offset_ticks == LastMarker.seconds_from_start * ClaimTickrate
            t == target_ticks[i].target_tick
        IN  /\ round_start # NaN /\ round_end # NaN
            /\ t = Max(round_end - offset_ticks, round_start)
            /\ round_start <= t
            /\ t <= Max(round_start, round_end)
            /\ (round_start = 1000 /\ round_end = 2000 /\ ClaimTickrate = 128
                    /\ LastMarker.seconds_from_start = 7) => t = 1104
            /\ (round_start = 1000 /\ round_end = 1050 /\ ClaimTickrate = 128
                    /\ LastMarker.seconds_from_start = 7) => t = 1000

C3_Witness ==
    /\ pc = "extract"
    /\ marker_i = 2
    /\ demo_tickrate = NaN
    /\ Len(target_ticks) >= 2
    /\ target_ticks[1] = [round_num |-> 1, target_tick |-> 1000]
    /\ rounds_df[1].end = 1050
    /\ target_ticks[2] = [round_num |-> 2, target_tick |-> RoundBase(2) + 1104]

\* C4: a tick table lacking a required column aborts the run for every
\* non-empty round and tick table: no image and no summary file is written.
C4_SchemaErrorWritesNothing ==
    (~InputsEmpty /\ ~(required_cols \subseteq ticks_columns)) =>
        /\ saved = {}
        /\ full_file.state = "absent"
        /\ target_file.state = "absent"

\* C5: when analyze_demo has aborted or failed, the two summary files are
\* both complete or both absent; neither is partial.
C5_SummaryAllOrNothing ==
    pc \in {"returned", "failed"} =>
        \/ full_file.state = "complete" /\ target_file.state = "complete"
        \/ full_file.state = "absent" /\ target_file.state = "absent"

\* a pass of the extraction loops has just appended an item
JustExtracted == pc \in {"extract", "individual"} /\ all_heatmap_data # << >>

LastItem == all_heatmap_data[Len(all_heatmap_data)]

\* the segment and the marker of an item
RangeOfItem(item) ==
    round_ranges[CHOOSE i \in 1..Len(round_ranges) : round_ranges[i].name = item.range_name]

MarkerOfItem(item) ==
    time_markers_config[CHOOSE m \in 1..Len(time_markers_config) :
                            time_markers_config[m].label = item.time_label_for_file]

\* a round without a start or without an end boundary, as the claims word it
ClaimUnresolvable(row) ==
    \/ row.freeze_end = NaN /\ row.start = NaN
    \/ row.end = NaN /\ row.end_official_tick = NaN

ClaimTargetTick(row, marker) ==
    Max(ClaimRoundEnd(row) - marker.seconds_from_start * ClaimTickrate, ClaimRoundStart(row))

\* the rows of the tick table at exactly the target tick of a round
ExactRows(row, marker) ==
    {i \in 1..Len(ticks_df) :
        /\ ticks_df[i].round_num = row.round_num
        /\ ticks_df[i].tick = ClaimTargetTick(row, marker)}

HasCoordinates(t) == t.X # NaN /\ t.Y # NaN /\ t.Z # NaN

IsSampleOf(sample, name, t) ==
    /\ t.name = name
    /\ t.round_num = sample.round_num
    /\ << t.X, t.Y, t.Z, t.side >> = << sample.x, sample.y, sample.z, sample.side >>

\* C6: every sample of an item comes from a tick row of a round of the item's
\* segment whose tick is exactly the round's target tick, never a nearby one;
\* every such row with coordinates is sampled, a round without one adds
\* nothing, and every (segment, marker) pair is processed.
C6_ExactTickSampling ==
    /\ JustExtracted =>
        LET item == LastItem
            rows == RangeRounds(RangeOfItem(item))
            marker == MarkerOfItem(item)
            d == item.positions_by_player
        IN  /\ \A e \in 1..Len(d) : \A n \in 1..Len(d[e].points) :
                  \E j \in 1..Len(rows) :
                      /\ ~ClaimUnresolvable(rows[j])
                      /\ \E i \in ExactRows(rows[j], marker) :
                            IsSampleOf(d[e].points[n], d[e].name, ticks_df[i])
            /\ \A j \in 1..Len(rows) :
                  ~ClaimUnresolvable(rows[j]) =>
                      \A i \in ExactRows(rows[j], marker) :
                          HasCoordinates(ticks_df[i]) =>
                              \E n \in 1..Len(PointsOf(d, ticks_df[i].name)) :
                                  IsSampleOf(PointsOf(d, ticks_df[i].name)[n],
                                             ticks_df[i].name, ticks_df[i])
    /\ Extracted => Len(all_heatmap_data) = Len(round_ranges) * Len(time_markers_config)

\* a row one tick off the target is in the table, the row at the target is sampled
C6_Witness ==
    /\ JustExtracted
    /\ Len(all_heatmap_data) = 1
    /\ \E i \in 1..Len(ticks_df) : ticks_df[i].round_num = 1 /\ ticks_df[i].tick = 1105
    /\ PointsOf(LastItem.positions_by_player, "p1") =
          << [x |-> 11, y |-> 20, z |-> 30, round_num |-> 1, side |-> "t"] >>

\* what the rounds of a segment give for a marker when the rounds without a
\* boundary are taken out of the segment
WithoutUnresolvable(rows) == SelectSeq(rows, LAMBDA row : ~ClaimUnresolvable(row))

\* C7: a round without a start or an end boundary gives no sample, and the
\* other rounds of its segment give the samples they give without it.
C7_UnresolvableRoundSkippedAlone ==
    JustExtracted =>
        LET item == LastItem
            rows == RangeRounds(RangeOfItem(item))
            marker == MarkerOfItem(item)
            d == item.positions_by_player
        IN  /\ \A e \in 1..Len(d) : \A n \in 1..Len(d[e].points) :
                  \A j \in 1..Len(rows) :
                      ClaimUnresolvable(rows[j]) =>
                          d[e].points[n].round_num # rows[j].round_num
            /\ d = AddRoundPositions(NoPositions, WithoutUnresolvable(rows), marker, 1).positions

\* round 1 has no boundary and has a tick row; round 2 is sampled
C7_Witness ==
    /\ JustExtracted
    /\ Len(all_heatmap_data) = 1
    /\ ClaimUnresolvable(rounds_df[1])
    /\ \E i \in 1..Len(ticks_df) : ticks_df[i].round_num = 1
    /\ PointsOf(LastItem.positions_by_player, "p1") =
          << [x |-> 10, y |-> 20, z |-> 30, round_num |-> 2, side |-> "ct"] >>

\* the samples one lookup gives a player: a sample for each matched row of the
\* player that has its three coordinates, in table order
LookupSamples(row, marker, name) ==
    LET matched == SelectSeq(ticks_df,
                        LAMBDA t : /\ t.round_num = row.round_num
                                   /\ t.tick = ClaimTargetTick(row, marker)
                                   /\ t.name = name
                                   /\ HasCoordinates(t))
    IN  [n \in 1..Len(matched) |->
            [x |-> matched[n].X, y |-> matched[n].Y, z |-> matched[n].Z,
             round_num |-> matched[n].round_num, side |-> matched[n].side]]

PlayerNames == {ticks_df[i].name : i \in 1..Len(ticks_df)}

\* C8: of the rows matched by a lookup, a row with a missing X, Y or Z gives no
\* sample and every other row gives one sample (x, y, z, round_num, side) under
\* its player's name, in the order the rows are matched.
C8_MissingCoordinateDropsOneSample ==
    JustExtracted =>
        LET item == LastItem
            rows == WithoutUnresolvable(RangeRounds(RangeOfItem(item)))
            marker == MarkerOfItem(item)
            d == item.positions_by_player
        IN  /\ \A name \in PlayerNames :
                  PointsOf(d, name) =
                      Concat([j \in 1..Len(rows) |-> LookupSamples(rows[j], marker, name)])
            /\ \A e \in 1..Len(d) :
                  /\ d[e].name \in PlayerNames
                  /\ \A n \in 1..Len(d[e].points) :
                        /\ d[e].points[n].x # NaN
                        /\ d[e].points[n].y # NaN
                        /\ d[e].points[n].z # NaN

\* one lookup matches a row without X and, after it, a row with coordinates
C8_Witness ==
    /\ JustExtracted
    /\ Len(all_heatmap_data) = 1
    /\ Len(ticks_df) = 2
    /\ ticks_df[1].X = NaN
    /\ ticks_df[1].tick = ticks_df[2].tick
    /\ ticks_df[1].round_num = ticks_df[2].round_num
    /\ Len(PointsOf(LastItem.positions_by_player, "p1")) = 1

\* C9: with an empty round table or an empty tick table analyze_demo returns
\* before it builds a segment or an item and before it renders or writes
\* anything.
C9_EmptyInputWritesNothing ==
    (rounds_df = << >> \/ ticks_df = << >>) =>
        /\ pc \in {"start", "returned"}
        /\ round_ranges = << >>
        /\ all_heatmap_data = << >>
        /\ attempted = {}
        /\ saved = {}
        /\ json_output = << >>
        /\ full_file = NoFile
        /\ target_file = NoFile
        /\ delivered = {}

C9_Witness == pc = "returned" /\ ticks_df = << >> /\ Len(rounds_df) = 25

\* the images a run has to attempt
ImagesToRender ==
    {IndividualImage(all_heatmap_data[k]) : k \in ItemsToRender(1)}
    \cup {CombinedImage(round_ranges[k].name) : k \in RangesToRender(1)}

\* what the rendering loops leave alone
SummaryState == << all_heatmap_data, round_ranges, json_output, full_file, target_file >>

RenderStep == pc \in {"individual", "combined"}

\* C10: a rendering that raises changes nothing but the image it skips: a step
\* of the rendering loops leaves the samples and the summary files alone and
\* goes on with the loops; whichever renderings raise, every individual and
\* combined image is attempted, the summary is the one the samples give, and
\* a run that ends has both summary files holding it.
C10_RenderFailureIsolated ==
    /\ [][RenderStep => /\ SummaryState' = SummaryState
                        /\ pc' \in {"individual", "combined", "json"}]_vars
    /\ [](Rendered => attempted = ImagesToRender)
    /\ [](pc \in {"write_full", "write_target", "move", "done", "failed"} =>
            json_output = JsonOutputOf(all_heatmap_data))
    /\ [](pc = "done" =>
            /\ full_file = [state |-> "complete",
                            content |-> JsonOutputOf(all_heatmap_data)]
            /\ target_file = [state |-> "complete",
                              content |-> TargetPlayerData(JsonOutputOf(all_heatmap_data))])

\* every rendering of a run with four images raised
C10_Witness ==
    /\ pc = "done"
    /\ Cardinality(attempted) >= 4
    /\ saved = {}
    /\ full_file.state = "complete"
    /\ full_file.content # << >>
    /\ target_file.state = "complete"

-----------------------------------------------------------------------------
(* Round numbers shown on the images *)

SegmentNamed(range_name) ==
    round_ranges[CHOOSE i \in 1..Len(round_ranges) : round_ranges[i].name = range_name]

\* the round number of the first row of a segment
ClaimFirstRound(range_name) == rounds_df[SegmentNamed(range_name).lo + 1].round_num

ItemOf(range_name, time_label) ==
    all_heatmap_data[CHOOSE k \in 1..Len(all_heatmap_data) :
                        /\ all_heatmap_data[k].range_name = range_name
                        /\ all_heatmap_data[k].time_label_for_file = time_label]

\* the samples an image shows, in the order of its annotations
SourcePoints(image) ==
    IF image.part = "combined"
    THEN PointsForRange(image.range_name)
    ELSE PointsOf(ItemOf(image.range_name, image.part).positions_by_player,
                  player_name_to_heatmap)

\* shown is round r re-based on first round f: r - f + 1, and in a half the
\* number of 1..12 that differs from it by a multiple of 12
RebasedAs(shown, r, f, range_name) ==
    IF range_name = "overtime"
    THEN shown = r - f + 1
    ELSE shown \in 1..12 /\ (shown - (r - f + 1)) % 12 = 0

\* C11: a round r of a segment whose first round is f >= r is shown as r - f + 1;
\* in first_half and second_half a value above 12 is wrapped to
\* ((r - f + 1 - 1) mod 12) + 1, so the number shown is in 1..12; in overtime it
\* is not wrapped; the individual image of a marker and the combined image of
\* its segment show the same number for the same sample.
C11_RoundNumbersRebased ==
    \A a \in round_annotations :
        LET points == SourcePoints(a.image)
            f == ClaimFirstRound(a.image.range_name)
        IN  /\ Len(a.entries) = Len(points)
            /\ \A i \in 1..Len(points) :
                  points[i].round_num >= f =>
                      RebasedAs(a.entries[i].round, points[i].round_num, f,
                                a.image.range_name)
            /\ a.image.part # "combined" =>
                  \A c \in round_annotations :
                      /\ c.image.part = "combined"
                      /\ c.image.range_name = a.image.range_name
                      => SelectSeq(c.entries, LAMBDA e : e.time_label = a.image.part)
                           = a.entries

-----------------------------------------------------------------------------
(* The structured summary *)

\* the summary has been built
Summarised == pc \in {"write_full", "write_target", "move", "done", "failed"}

\* the time labels in ascending string order
LabelsAscending == << "1m46s", "1m47s", "1m48s" >>

LabelIndex(time_label) ==
    CHOOSE n \in 1..Len(LabelsAscending) : LabelsAscending[n] = time_label

\* occurrence a is not after occurrence b in the order (round, time_label)
NotAfter(a, b) ==
    \/ a.round < b.round
    \/ a.round = b.round /\ LabelIndex(a.time_label) <= LabelIndex(b.time_label)

\* C12: in the summary the occurrences of every position of every player are
\* in ascending order of (round, time_label), the round first: (1, "1m48s")
\* comes before an occurrence of a later round with label "1m47s".
C12_OccurrencesSorted ==
    Summarised =>
        \A p \in 1..Len(json_output) :
            \A q \in 1..Len(json_output[p].positions) :
                LET occurrences == json_output[p].positions[q].occurrences
                IN  \A i \in 1..Len(occurrences), j \in 1..Len(occurrences) :
                        i < j => NotAfter(occurrences[i], occurrences[j])

\* a position met at 1m48s in round 1 and at 1m47s and 1m46s in round 2: the
\* samples come in the order 1m48s, 1m47s, 1m46s and the summary lists
\* (1, "1m48s"), (2, "1m46s"), (2, "1m47s")
C12_Witness ==
    /\ Summarised
    /\ \E p \in 1..Len(json_output) :
          \E q \in 1..Len(json_output[p].positions) :
              LET occurrences == json_output[p].positions[q].occurrences
              IN  /\ Len(occurrences) = 3
                  /\ << occurrences[1].round, occurrences[1].time_label >> = << 1, "1m48s" >>
                  /\ << occurrences[2].round, occurrences[2].time_label >> = << 2, "1m46s" >>
                  /\ << occurrences[3].round, occurrences[3].time_label >> = << 2, "1m47s" >>

\* the items the round table, the tick table and the tick rate give, segment
\* by segment and marker by marker
ItemsOfInputs ==
    LET segments == RoundRangesOf(Len(rounds_df))
    IN  Concat([k \in 1..Len(segments) |->
                  [m \in 1..Len(time_markers_config) |->
                      [range_name |-> segments[k].name,
                       range_label |-> segments[k].label,
                       time_label_for_file |-> time_markers_config[m].label,
                       display_time_for_title |-> time_markers_config[m].display_time,
                       seconds_from_start |-> time_markers_config[m].seconds_from_start,
                       positions_by_player |->
                           AddRoundPositions(NoPositions, RangeRounds(segments[k]),
                                             time_markers_config[m], 1).positions]]])

\* C13: the summary is a function of the round table, the tick table, the tick
\* rate and the target player: whatever the renderer and the file system do in
\* a run, the summary built is the one these inputs determine, with its player
\* order, position order, counts and occurrence order; it is not changed once
\* built, and every summary file written whole holds it; so two runs on the
\* same inputs build the same summary.
C13_SummaryDeterminedByInputs ==
    /\ [](pc = "write_full" => json_output = JsonOutputOf(ItemsOfInputs))
    /\ [][Summarised => json_output' = json_output /\ inputs' = inputs]_vars
    /\ [](full_file.state = "complete" => full_file.content = json_output)
    /\ [](target_file.state = "complete" =>
            target_file.content = TargetPlayerData(json_output))
    /\ [](~Summarised => full_file.state = "absent" /\ target_file.state = "absent")

\* a summary of two players written whole in a run where a rendering failed
C13_Witness ==
    /\ pc = "done"
    /\ full_file.state = "complete"
    /\ Len(json_output) = 2
    /\ json_output[1].player = "p1" /\ json_output[2].player = "p2"
    /\ saved # attempted

RECURSIVE SumOfCounts(_)
SumOfCounts(positions) ==
    IF positions = << >> THEN 0
    ELSE Head(positions).count + SumOfCounts(Tail(positions))

\* the number of samples of a player in the items from item k on
RECURSIVE SamplesFrom(_, _)
SamplesFrom(name, k) ==
    IF k > Len(all_heatmap_data) THEN 0
    ELSE Len(PointsOf(all_heatmap_data[k].positions_by_player, name))
            + SamplesFrom(name, k + 1)

\* C14: in the summary the count of every position of every player is the
\* length of its occurrence list, the counts of a player add up to the number
\* of samples stored for the player over all (segment, marker) pairs, and every
\* player with a sample has one entry: no sample is lost or counted twice.
C14_CountsMatchOccurrences ==
    Summarised =>
        /\ \A p \in 1..Len(json_output) :
              /\ \A q \in 1..Len(json_output[p].positions) :
                    json_output[p].positions[q].count
                        = Len(json_output[p].positions[q].occurrences)
              /\ SumOfCounts(json_output[p].positions)
                    = SamplesFrom(json_output[p].player, 1)
              /\ \A r \in 1..Len(json_output) :
                    json_output[r].player = json_output[p].player => r = p
        /\ \A name \in PlayerNames :
              SamplesFrom(name, 1) > 0 =>
                  \E p \in 1..Len(json_output) : json_output[p].player = name

\* a player with three samples at two positions, one position met twice
C14_Witness ==
    /\ Summarised
    /\ \E p \in 1..Len(json_output) :
          /\ Len(json_output[p].positions) = 2
          /\ json_output[p].positions[1].count = 2
          /\ json_output[p].positions[2].count = 1
          /\ SamplesFrom(json_output[p].player, 1) = 3

-----------------------------------------------------------------------------
(* The unknown round marker *)

\* the round numbers increase in the order of the round table
RoundsIncrease ==
    \A i \in 1..Len(rounds_df), j \in 1..Len(rounds_df) :
        i < j => rounds_df[i].round_num < rounds_df[j].round_num

\* the round numbers of the rows of a segment
RoundNumbersOf(range_name) ==
    LET rows == RangeRounds(SegmentNamed(range_name))
    IN  {rows[i].round_num : i \in 1..Len(rows)}

\* C15: when the round numbers increase in the order of the round table, every
\* sample stored under a (segment, marker) pair carries the number of a round
\* of that segment, not below the number of the segment's first round, and no
\* image shows the unknown marker: every round number shown is at least 1.
C15_UnknownRoundUnreachable ==
    RoundsIncrease =>
        /\ \A k \in 1..Len(all_heatmap_data) :
              LET item == all_heatmap_data[k]
              IN  \A n \in 1..Len(item.positions_by_player) :
                      \A i \in 1..Len(item.positions_by_player[n].points) :
                          LET r == item.positions_by_player[n].points[i].round_num
                          IN  /\ r \in RoundNumbersOf(item.range_name)
                              /\ r >= ClaimFirstRound(item.range_name)
        /\ \A a \in round_annotations :
              \A i \in 1..Len(a.entries) :
                  a.entries[i].round # UnknownRound /\ a.entries[i].round >= 1

\* an increasing table that starts at round 5: the second round of a segment is
\* shown as 2 on an individual and on a combined image
C15_Witness ==
    /\ RoundsIncrease
    /\ rounds_df[1].round_num = 5
    /\ \E a \in round_annotations, c \in round_annotations :
          /\ a.image.part # "combined" /\ c.image.part = "combined"
          /\ \E i \in 1..Len(a.entries) :
                /\ a.entries[i].round = 2
                /\ SourcePoints(a.image)[i].round_num
                      = ClaimFirstRound(a.image.range_name) + 1
          /\ \E i \in 1..Len(c.entries) :
                /\ c.entries[i].round = 2
                /\ SourcePoints(c.image)[i].round_num
                      = ClaimFirstRound(c.image.range_name) + 1

-----------------------------------------------------------------------------
(* The count printed after rendering: line 369 *)

\* C16: the count printed when the rendering loops have ended is the number of
\* images saved in the run, whichever renderings succeeded and whichever
\* raised.  The counter is incremented at line 194 before the try of an
\* individual image and at line 364 after the savefig of a combined image, so
\* an individual rendering that raises is counted without an image.
C16_CountIsImagesSaved ==
    Rendered => generated_heatmap_count = Cardinality(saved)

====
